---- MODULE Spec2Model ----
(***************************************************************************)
(* A model of the time-uuid library: Uuid (src/lib/uuid.ts) and TimeUuid   *)
(* (src/lib/time-uuid.ts).                                                 *)
(*                                                                         *)
(* Numbers.  TLC's integers are 32 bits wide, the library's timestamps are *)
(* 64 bits wide.  A JavaScript integer (a Date's getTime(), the exact      *)
(* value a Long computation has before it is reduced to 64 bits) is        *)
(* modelled as a Num: six decimal limbs of four digits each, most          *)
(* significant first, holding the value modulo 10^24 (a negative value x   *)
(* is held as 10^24 + x).  <<0, 0, 12, 2192, 9280, 0>> is 12219292800000.  *)
(* A Long is modelled as its eight bytes, most significant first, in two's *)
(* complement.  A Buffer is a sequence of bytes (0..255); buffer[i] of the *)
(* source is buffer[i + 1] here.  A string is a sequence of one-character  *)
(* strings.                                                                *)
(***************************************************************************)
EXTENDS Integers, Sequences, FiniteSets

VARIABLES
  _ticks,                \* counter of the explicit-time calls
  _ticksForCurrentTime,  \* counter of the calls that use the current time
  _lastTimestamp,        \* the last current time that reset _ticksForCurrentTime (a Num)
  clock,                 \* the wall clock: milliseconds after NowBase
  op,                    \* the last call made: its name and its arguments
  ret,                   \* what the last call returned: an instance or a thrown error
  out,                   \* what the last accessor called on the instance returned
  calls,                 \* the number of generating calls made, where they are bounded
  first,                 \* the buffer the first call of a run of equal calls returned
  inMs,                  \* the number of current-time calls since the clock last moved
  lower, upper           \* the range bounds the caller holds (of min and of max)

vars == <<_ticks, _ticksForCurrentTime, _lastTimestamp, clock, op, ret, out, calls,
          first, inMs, lower, upper>>

(* ------------------------------------------------------------------ Num *)

Zero == <<0, 0, 0, 0, 0, 0>>

RECURSIVE AddFrom(_, _, _, _)
\* Limbs i..1 of a + b + carry, as a sequence of i limbs (the last carry is dropped).
AddFrom(a, b, i, carry) ==
  IF i = 0 THEN <<>>
  ELSE LET s == a[i] + b[i] + carry
       IN  Append(AddFrom(a, b, i - 1, s \div 10000), s % 10000)

\* a + b
Add(a, b) == AddFrom(a, b, 6, 0)

\* -a
Neg(a) == Add([i \in 1..6 |-> 9999 - a[i]], <<0, 0, 0, 0, 0, 1>>)

\* a < 0
IsNeg(a) == a[1] >= 5000

\* a < b
Less(a, b) == IsNeg(Add(a, Neg(b)))

\* The Num of an integer k with |k| < 10^8.
FromInt(k) ==
  IF k >= 0 THEN <<0, 0, 0, 0, k \div 10000, k % 10000>>
  ELSE Neg(<<0, 0, 0, 0, (-k) \div 10000, (-k) % 10000>>)

\* a * 10000
Times10000(a) == <<a[2], a[3], a[4], a[5], a[6], 0>>

\* a \div 10000 and a % 10000, for a >= 0
Div10000(a) == <<0, a[1], a[2], a[3], a[4], a[5]>>
Mod10000(a) == a[6]

(* ------------------------------------------------- positional notation *)

RECURSIVE DivSeq(_, _, _, _, _)
\* Long division of the digits ds[i..] (base `base`, most significant first) by d,
\* entered with the remainder r of the digits before i: [q |-> quotient digits, r |-> remainder].
DivSeq(ds, base, d, i, r) ==
  IF i > Len(ds) THEN [q |-> <<>>, r |-> r]
  ELSE LET cur  == r * base + ds[i]
           rest == DivSeq(ds, base, d, i + 1, cur % d)
       IN  [q |-> <<cur \div d>> \o rest.q, r |-> rest.r]

RECURSIVE Convert(_, _, _, _)
\* The n least significant digits in base `to` of the number whose digits in base
\* `from` are ds; both most significant first.
Convert(ds, from, to, n) ==
  IF n = 0 THEN <<>>
  ELSE LET d == DivSeq(ds, from, to, 1, 0)
       IN  Append(Convert(d.q, from, to, n - 1), d.r)

RECURSIVE IncFrom(_, _)
\* bytes + 1 modulo 256^i, on the first i bytes.
IncFrom(bs, i) ==
  IF i = 0 THEN <<>>
  ELSE IF bs[i] = 255 THEN Append(IncFrom(bs, i - 1), 0)
  ELSE Append(SubSeq(bs, 1, i - 1), bs[i] + 1)

(* ----------------------------------------------------------------- Long *)

\* Long.fromNumber(x) for an integer x with |x| < 2^63, and every sum and product of
\* such Longs: the value modulo 2^64 (Long arithmetic wraps), as eight bytes.
LongOf(x) ==
  IF IsNeg(x)
  THEN IncFrom([i \in 1..8 |-> 255 - Convert(Neg(x), 10000, 256, 8)[i]], 8)
  ELSE Convert(x, 10000, 256, 8)

(* ------------------------------------------------------------ constants *)

\* Oct 15, 1582 in milliseconds since unix epoch
_unixToGregorian == <<0, 0, 12, 2192, 9280, 0>>

\* 10,000 ticks in a millisecond
_ticksInMs == 10000

minNodeId  == <<128, 128, 128, 128, 128, 128>>
minClockId == <<128, 128>>
maxNodeId  == <<127, 127, 127, 127, 127, 127>>
maxClockId == <<127, 127>>

(* ------------------------------------------------------- Uuid (uuid.ts) *)

HexDigits == <<"0", "1", "2", "3", "4", "5", "6", "7", "8", "9", "a", "b", "c", "d", "e", "f">>
UpperHexDigits == <<"0", "1", "2", "3", "4", "5", "6", "7", "8", "9", "A", "B", "C", "D", "E", "F">>

\* The value of a hexadecimal digit of either case; -1 for any other character.
HexVal(c) ==
  IF \E i \in 1..16 : HexDigits[i] = c THEN (CHOOSE i \in 1..16 : HexDigits[i] = c) - 1
  ELSE IF \E i \in 1..16 : UpperHexDigits[i] = c
       THEN (CHOOSE i \in 1..16 : UpperHexDigits[i] = c) - 1
  ELSE -1

\* A hex encoding that writes the low digit of a byte before the high one.
getHexSwapped(buffer) ==
  [i \in 1..(2 * Len(buffer)) |->
     LET b == buffer[(i + 1) \div 2]
     IN  HexDigits[(IF i % 2 = 1 THEN b % 16 ELSE b \div 16) + 1]]

\* buffer.toString("hex"): two lowercase digits a byte.
getHex(buffer) ==
  [i \in 1..(2 * Len(buffer)) |->
     LET b == buffer[(i + 1) \div 2]
     IN  HexDigits[(IF i % 2 = 1 THEN b \div 16 ELSE b % 16) + 1]]

\* hexValue.substr(start, n), start counted from 0.
substr(s, start, n) == SubSeq(s, start + 1, start + n)

\* Uuid.toString
toString(buffer) ==
  LET hexValue == getHex(buffer)
  IN  substr(hexValue, 0, 8) \o <<"-">> \o substr(hexValue, 8, 4) \o <<"-">> \o
      substr(hexValue, 12, 4) \o <<"-">> \o substr(hexValue, 16, 4) \o <<"-">> \o
      substr(hexValue, 20, 12)

RECURSIVE HexDecodeFrom(_, _)
\* Buffer.from(s, "hex") from the pair that starts at character i: one byte a pair of
\* hexadecimal digits, ending at the first pair that is not one (a last single
\* character is dropped).
HexDecodeFrom(s, i) ==
  IF i + 1 > Len(s) \/ HexVal(s[i]) < 0 \/ HexVal(s[i + 1]) < 0 THEN <<>>
  ELSE <<16 * HexVal(s[i]) + HexVal(s[i + 1])>> \o HexDecodeFrom(s, i + 2)

\* value.replace(/-/g, "")
StripHyphens(value) == SelectSeq(value, LAMBDA c : c # "-")

\* new Uuid(buffer): the result of a constructor or a factory is a record, an
\* instance (ok) holding its buffer or a thrown error.
Thrown == [ok |-> FALSE, buffer |-> <<>>]
Instance(buffer) == [ok |-> TRUE, buffer |-> buffer]

\* A constructor that checks buffer.length < 16 for buffer.length !== 16.
UuidAtLeast16(buffer) == IF Len(buffer) < 16 THEN Thrown ELSE Instance(buffer)

Uuid(buffer) == IF Len(buffer) # 16 THEN Thrown ELSE Instance(buffer)

\* Uuid.fromString
fromString(value) ==
  IF Len(value) # 36 THEN Thrown
  ELSE Uuid(HexDecodeFrom(StripHyphens(value), 1))

\* createUuidFromBuffer: version 4 and the IETF variant stamped on random bytes.
\* createUuidFromBuffer that stamps the variant only.
createUuidFromBufferNoVersion(buffer) ==
  Uuid([buffer EXCEPT ![9] = (buffer[9] % 64) + 128])

createUuidFromBuffer(buffer) ==
  Uuid([buffer EXCEPT ![7] = (buffer[7] % 16) + 64,
                      ![9] = (buffer[9] % 64) + 128])

(* ----------------------------------------------- TimeUuid (time-uuid.ts) *)

\* writeTime: the first eight bytes of the buffer.
writeTime(time, ticks) ==
  LET val == LongOf(Add(Times10000(Add(time, _unixToGregorian)), FromInt(ticks)))
      \* timeHigh = val.getHighBitsUnsigned() is val[1..4], the low bits are val[5..8]
  IN  <<val[5], val[6], val[7], val[8],      \* writeUInt32BE(low, 0)
        val[3], val[4],                      \* writeUInt16BE(timeHigh & 0xffff, 4)
        val[1], val[2]>>                     \* writeUInt16BE(timeHigh >>> 16 & 0xffff, 6)

\* getDatePrecision without the & 0x0f on byte 6: the version is read as time.
getDatePrecisionNoMask(buffer) ==
  LET val == <<0, 0, 0, 0, buffer[7], buffer[8], buffer[5], buffer[6],
               buffer[1], buffer[2], buffer[3], buffer[4]>>
      num == Convert(val, 256, 10000, 6)
  IN  [date  |-> Add(Div10000(num), Neg(_unixToGregorian)),
       ticks |-> Mod10000(num)]

\* getDatePrecision that reads the low 32 bits with readUInt32LE for readUInt32BE.
getDatePrecisionLittleEndian(buffer) ==
  LET val == <<0, 0, 0, 0, buffer[7] % 16, buffer[8], buffer[5], buffer[6],
               buffer[4], buffer[3], buffer[2], buffer[1]>>
      num == Convert(val, 256, 10000, 6)
  IN  [date  |-> Add(Div10000(num), Neg(_unixToGregorian)),
       ticks |-> Mod10000(num)]

\* TimeUuid.getDatePrecision
getDatePrecision(buffer) ==
  LET val == <<0, 0, 0, 0, buffer[7] % 16, buffer[8], buffer[5], buffer[6],
               buffer[1], buffer[2], buffer[3], buffer[4]>>
      num == Convert(val, 256, 10000, 6)
  IN  [date  |-> Add(Div10000(num), Neg(_unixToGregorian)),
       ticks |-> Mod10000(num)]

getDate(buffer) == getDatePrecision(buffer).date

\* getNodeId that takes subarray(9) for subarray(10).
NodeIdOfFrom9(buffer) == SubSeq(buffer, 10, 16)

\* TimeUuid.getNodeId, getClockId
NodeIdOf(buffer)  == SubSeq(buffer, 11, 16)
ClockIdOf(buffer) == SubSeq(buffer, 9, 10)

\* isBefore, isAfter: the order of the (time, ticks) pairs getDatePrecision extracts.
isBefore(a, b) ==
  LET da == getDatePrecision(a)
      db == getDatePrecision(b)
  IN  Less(da.date, db.date) \/ (da.date = db.date /\ da.ticks < db.ticks)
isAfter(a, b) == isBefore(b, a)

\* TimeUuid.sortAscending, sortDescending: comparators for Array.prototype.sort.
sortAscending(a, b)  == IF isBefore(a, b) THEN -1 ELSE IF isAfter(a, b) THEN 1 ELSE 0
sortDescending(a, b) == sortAscending(b, a)

\* TimeUuid.getNodeIdString: buffer.toString("ascii") clears the top bit of every byte;
\* the string is given by its character codes.
getNodeIdString(buffer) == [i \in 1..6 |-> NodeIdOf(buffer)[i] % 128]

(* ------------------------------------------------------------ arguments *)

\* An optional argument is a record; kind tells what was passed.
Undefined     == [kind |-> "undefined"]
DateArg(t)    == [kind |-> "date", time |-> t]
InvalidDate   == [kind |-> "invalid"]            \* a Date whose getTime() is NaN
Number(n)     == [kind |-> "number", n |-> n]
BufferArg(b)  == [kind |-> "buffer", bytes |-> b]
StringArg(cs) == [kind |-> "string", chars |-> cs]

\* new Date(t): a time value beyond +-8.64e15 ms makes an invalid Date.
MaxDate == <<0, 0, 8640, 0, 0, 0>>
NewDate(t) ==
  IF Less(MaxDate, t) \/ Less(t, Neg(MaxDate)) THEN InvalidDate ELSE DateArg(t)

\* The character codes Buffer.from(s, "ascii") writes, for the characters used here.
AsciiCode(c) ==
  CASE c = "0" -> 48 [] c = "1" -> 49 [] c = "A" -> 65 [] c = "h" -> 104
    [] c = "o" -> 111 [] c = "s" -> 115 [] c = "t" -> 116

AsciiBytes(cs) == [i \in 1..Len(cs) |-> AsciiCode(cs[i])]

(* ------------------------------------------------------ helper functions *)

\* What a call leaves behind: ok and the buffer of the instance made (or a thrown
\* error), and the three counters as the call left them.
Outcome(ok, buffer, t, tfc, last) ==
  [ok |-> ok, buffer |-> buffer, _ticks |-> t, _ticksForCurrentTime |-> tfc,
   _lastTimestamp |-> last]

getClockId(clockId, random) ==
  LET buffer == IF clockId.kind = "string" THEN BufferArg(AsciiBytes(clockId.chars))
                ELSE clockId
  IN  IF buffer.kind # "buffer" THEN Instance(random)
      ELSE IF Len(buffer.bytes) # 2 THEN Thrown
      ELSE Instance(buffer.bytes)

getNodeId(nodeId, random) ==
  LET buffer == IF nodeId.kind = "string" THEN BufferArg(AsciiBytes(nodeId.chars))
                ELSE nodeId
  IN  IF buffer.kind # "buffer" THEN Instance(random)
      ELSE IF Len(buffer.bytes) # 6 THEN Thrown
      ELSE Instance(buffer.bytes)

\* getTicks without its _ticks++: the counter is read and never moved.
getTicksNoIncrement(ticks) ==
  IF ticks.kind # "number" \/ ticks.n >= _ticksInMs
  THEN LET next == IF _ticks >= _ticksInMs THEN 0 ELSE _ticks
       IN  [ticks |-> next, _ticks |-> next]
  ELSE [ticks |-> ticks.n, _ticks |-> _ticks]

\* getTicks that returns the counter and increments it afterwards.
getTicksPostIncrement(ticks) ==
  IF ticks.kind # "number" \/ ticks.n >= _ticksInMs
  THEN [ticks |-> _ticks,
        _ticks |-> IF _ticks + 1 >= _ticksInMs THEN 0 ELSE _ticks + 1]
  ELSE [ticks |-> ticks.n, _ticks |-> _ticks]

\* getTicks with its type test misspelt: every call draws from the counter.
getTicksAlwaysCounter(ticks) ==
  LET next == IF _ticks + 1 >= _ticksInMs THEN 0 ELSE _ticks + 1
  IN  [ticks |-> next, _ticks |-> next]

\* getTicks: the ticks to use and the value _ticks is left with.
getTicks(ticks) ==
  IF ticks.kind # "number" \/ ticks.n >= _ticksInMs
  THEN LET next == IF _ticks + 1 >= _ticksInMs THEN 0 ELSE _ticks + 1
       IN  [ticks |-> next, _ticks |-> next]
  ELSE [ticks |-> ticks.n, _ticks |-> _ticks]

\* getTimeWithTicks without the test of the wall clock: the counter is reset only
\* when it runs over.
getTimeWithTicksNoClock(date, ticks, wall) ==
  IF date.kind # "date"
  THEN LET time  == wall
           inc   == _ticksForCurrentTime + 1
           reset == inc > _ticksInMs
           cur   == IF reset THEN 0 ELSE inc
           t     == getTicks(Number(cur))
       IN  [time |-> time, ticks |-> t.ticks, _ticks |-> t._ticks,
            _ticksForCurrentTime |-> cur,
            _lastTimestamp |-> IF reset THEN time ELSE _lastTimestamp]
  ELSE LET t == getTicks(ticks)
       IN  [time |-> date.time, ticks |-> t.ticks, _ticks |-> t._ticks,
            _ticksForCurrentTime |-> _ticksForCurrentTime,
            _lastTimestamp |-> _lastTimestamp]

\* getTimeWithTicks; wall is what new Date() reads.
getTimeWithTicks(date, ticks, wall) ==
  IF date.kind # "date"
  THEN LET time  == wall
           inc   == _ticksForCurrentTime + 1
           reset == inc > _ticksInMs \/ Less(_lastTimestamp, time)
           cur   == IF reset THEN 0 ELSE inc
           t     == getTicks(Number(cur))
       IN  [time |-> time, ticks |-> t.ticks, _ticks |-> t._ticks,
            _ticksForCurrentTime |-> cur,
            _lastTimestamp |-> IF reset THEN time ELSE _lastTimestamp]
  ELSE LET t == getTicks(ticks)
       IN  [time |-> date.time, ticks |-> t.ticks, _ticks |-> t._ticks,
            _ticksForCurrentTime |-> _ticksForCurrentTime,
            _lastTimestamp |-> _lastTimestamp]

\* generateBuffer without the & 0x0f on byte 6: the version is or-ed onto what the
\* time left there.
generateBufferNoMask(date, ticks, nodeId, clockId, wall, random) ==
  LET timeWithTicks == getTimeWithTicks(date, ticks, wall)
      nodeBuffer    == getNodeId(nodeId, random.node)
      clockBuffer   == getClockId(clockId, random.clock)
      buffer == writeTime(timeWithTicks.time, timeWithTicks.ticks)
                  \o clockBuffer.buffer \o nodeBuffer.buffer
  IN  IF nodeBuffer.ok /\ clockBuffer.ok
      THEN Outcome(TRUE,
                   [buffer EXCEPT ![7] = IF (buffer[7] \div 16) % 2 = 1
                                         THEN buffer[7] ELSE buffer[7] + 16,
                                  ![9] = (buffer[9] % 64) + 128],
                   timeWithTicks._ticks, timeWithTicks._ticksForCurrentTime,
                   timeWithTicks._lastTimestamp)
      ELSE Outcome(FALSE, <<>>,
                   timeWithTicks._ticks, timeWithTicks._ticksForCurrentTime,
                   timeWithTicks._lastTimestamp)

\* generateBuffer; random holds what crypto.randomBytes would return for the node
\* and for the clock.  The counters move before the node and the clock are checked.
generateBuffer(date, ticks, nodeId, clockId, wall, random) ==
  LET timeWithTicks == getTimeWithTicks(date, ticks, wall)
      nodeBuffer    == getNodeId(nodeId, random.node)
      clockBuffer   == getClockId(clockId, random.clock)
      buffer == writeTime(timeWithTicks.time, timeWithTicks.ticks)
                  \o clockBuffer.buffer \o nodeBuffer.buffer
  IN  IF nodeBuffer.ok /\ clockBuffer.ok
      THEN Outcome(TRUE,
                   [buffer EXCEPT ![7] = (buffer[7] % 16) + 16,
                                  ![9] = (buffer[9] % 64) + 128],
                   timeWithTicks._ticks, timeWithTicks._ticksForCurrentTime,
                   timeWithTicks._lastTimestamp)
      ELSE Outcome(FALSE, <<>>,
                   timeWithTicks._ticks, timeWithTicks._ticksForCurrentTime,
                   timeWithTicks._lastTimestamp)

\* new TimeUuid(value, ticks, nodeId, clockId)
TimeUuid(value, ticks, nodeId, clockId, wall, random) ==
  IF value.kind = "buffer"
  THEN Outcome(Len(value.bytes) = 16, IF Len(value.bytes) = 16 THEN value.bytes ELSE <<>>,
               _ticks, _ticksForCurrentTime, _lastTimestamp)
  ELSE LET g == generateBuffer(value, ticks, nodeId, clockId, wall, random)
       IN  Outcome(g.ok /\ Uuid(g.buffer).ok, Uuid(g.buffer).buffer,
                   g._ticks, g._ticksForCurrentTime, g._lastTimestamp)

fromDate(date, ticks, nodeId, clockId, wall, random) ==
  TimeUuid(date, ticks, nodeId, clockId, wall, random)

\* TimeUuid.fromString
TimeUuidFromString(value, wall, random) ==
  LET u == fromString(value)
  IN  IF u.ok THEN TimeUuid(BufferArg(u.buffer), Undefined, Undefined, Undefined, wall, random)
      ELSE Outcome(FALSE, <<>>, _ticks, _ticksForCurrentTime, _lastTimestamp)

min(date, ticks, wall, random) ==
  TimeUuid(date, ticks, BufferArg(minNodeId), BufferArg(minClockId), wall, random)

max(date, ticks, wall, random) ==
  TimeUuid(date, ticks, BufferArg(maxNodeId), BufferArg(maxClockId), wall, random)

now(nodeId, clockId, wall, random) ==
  fromDate(Undefined, Undefined, nodeId, clockId, wall, random)

\* getBefore that passes the ticks on as they are.
\* getBefore that leaves the ticks to the counter.
getBeforeNoTicks(buffer, wall, random) ==
  LET dp == getDatePrecision(buffer)
  IN  fromDate(NewDate(dp.date), Undefined,
               BufferArg(NodeIdOf(buffer)), BufferArg(ClockIdOf(buffer)), wall, random)

getBeforeSameTicks(buffer, wall, random) ==
  LET dp == getDatePrecision(buffer)
  IN  fromDate(NewDate(dp.date), Number(dp.ticks),
               BufferArg(NodeIdOf(buffer)), BufferArg(ClockIdOf(buffer)), wall, random)

\* TimeUuid.getBefore, of the instance that holds buffer.
getBefore(buffer, wall, random) ==
  LET dp == getDatePrecision(buffer)
  IN  fromDate(NewDate(dp.date), Number(dp.ticks - 1),
               BufferArg(NodeIdOf(buffer)), BufferArg(ClockIdOf(buffer)), wall, random)

(* --------------------------------------------------------------- bounds *)

\* The generating calls a behaviour of Spec makes.
MaxCalls == 2
\* The milliseconds the wall clock advances.
MaxClock == 1

(* --------------------------------------------------------------- inputs *)

GregorianEpoch == Neg(_unixToGregorian)          \* 1582-10-15, the timestamp 0
UnixEpoch      == Zero
Date2015       == <<0, 0, 1, 4208, 6630, 5000>>  \* 2015-01-10 05:05:05 GMT
NowBase        == <<0, 0, 1, 7000, 0, 0>>        \* 2023-11-14 22:13:20 GMT
\* The last millisecond the 60-bit timestamp holds (2^60 - 1 is its tick 6975) ...
LastDate60     == <<0, 0, 103, 728, 5766, 684>>
\* ... the millisecond after it, and the millisecond before the timestamp 0.
DateOver60     == Add(LastDate60, FromInt(1))
DateBefore1582 == Add(GregorianEpoch, FromInt(-1))

\* new Date() when the wall clock reads c.
Wall(c) == Add(NowBase, FromInt(c))

ExplicitTimes == {GregorianEpoch, UnixEpoch, Date2015, NowBase, LastDate60,
                  DateOver60, DateBefore1582}
DateArgs  == {Undefined, InvalidDate} \cup {DateArg(t) : t \in ExplicitTimes}
TickArgs  == {Undefined, Number(-1), Number(0), Number(699), Number(9999),
              Number(10000)}
NodeArgs  == {Undefined, StringArg(<<"h", "o", "s", "t", "0", "1">>),
              BufferArg(<<1, 2, 3, 4, 5>>)}
ClockArgs == {Undefined, StringArg(<<"A", "A">>), BufferArg(<<255, 255>>),
              BufferArg(<<1>>)}

\* What crypto.randomBytes may return: samples of the 6 and of the 2 random bytes.
RandomNodes  == {<<255, 128, 127, 0, 1, 254>>}
RandomClocks == {<<0, 0>>, <<127, 128>>}
\* The random bytes a call draws: none when the node or the clock is given.
RandomFor(nodeId, clockId) ==
  {[node |-> n, clock |-> c] :
     n \in IF nodeId.kind = "undefined" THEN RandomNodes ELSE {<<>>},
     c \in IF clockId.kind = "undefined" THEN RandomClocks ELSE {<<>>}}

\* Counter values the process can be in: _ticks cycles through 0..9999 and
\* _ticksForCurrentTime through 0..10000, independently of each other.
StartTicks   == {4321, 9999}
StartCurrent == {9999, 10000}

\* Buffers a caller wraps: well-formed version 1 identifiers (the timestamp 0, the
\* test's 3d555680-9886-11e4-8101-010101010101), buffers that carry no version or
\* variant (all zero, the test's acb1ccdd-eeff-0011-2233-445566778813, all ff), and
\* buffers of another length.
WrappedBuffers ==
  {<<0, 0, 0, 0, 0, 0, 16, 0, 128, 0, 0, 0, 0, 0, 0, 0>>,
   <<61, 85, 86, 128, 152, 134, 17, 228, 129, 1, 1, 1, 1, 1, 1, 1>>,
   <<0, 0, 0, 0, 0, 0, 0, 0, 0, 0, 0, 0, 0, 0, 0, 0>>,
   <<172, 177, 204, 221, 238, 255, 0, 17, 34, 51, 68, 85, 102, 119, 136, 19>>,
   <<255, 255, 255, 255, 255, 255, 255, 255, 255, 255, 255, 255, 255, 255, 255, 255>>,
   <<>>,
   <<1, 2, 3, 4, 5, 6, 7, 8, 9, 10, 11, 12, 13, 14, 15>>,
   <<1, 2, 3, 4, 5, 6, 7, 8, 9, 10, 11, 12, 13, 14, 15, 16, 17>>}

\* What crypto.randomBytes(16) may return: samples that vary the two bytes the version
\* and the variant are stamped on.
RandomBytes == {0, 15, 64, 79, 128, 191, 240, 255}
RandomBuffers ==
  {[i \in 1..16 |-> IF i = 7 THEN x ELSE IF i = 9 THEN y ELSE z] :
     x \in RandomBytes, y \in RandomBytes, z \in {0, 165}}

\* s with its i-th character replaced by c; s with its i-th character removed;
\* s with its characters in upper case.
Replace(s, i, c) == [s EXCEPT ![i] = c]
Remove(s, i) == SubSeq(s, 1, i - 1) \o SubSeq(s, i + 1, Len(s))
Upper(s) == [i \in 1..Len(s) |->
               IF HexVal(s[i]) >= 10 THEN UpperHexDigits[HexVal(s[i]) + 1] ELSE s[i]]

\* Strings a caller parses: the canonical form of two identifiers; each with one
\* character replaced (by a hyphen, a digit, an upper case digit, a letter that is no
\* digit); in upper case; with a hyphen moved to the end, or dropped and a digit or
\* another character added at the end; one character shorter or longer; "22"; "".
CanonicalStrings ==
  {toString(<<61, 85, 86, 128, 152, 134, 17, 228, 129, 1, 1, 1, 1, 1, 1, 1>>),
   toString(<<172, 177, 204, 221, 238, 255, 0, 17, 34, 51, 68, 85, 102, 119, 136, 19>>)}
EditChars == {"-", "0", "A", "g"}
StringInputs ==
  CanonicalStrings
    \cup {Replace(s, i, c) : s \in CanonicalStrings, i \in 1..36, c \in EditChars}
    \cup {Upper(s) : s \in CanonicalStrings}
    \cup {Append(Remove(s, i), c) : s \in CanonicalStrings, i \in {9, 14, 19, 24, 1, 36},
                                    c \in EditChars}
    \cup {StripHyphens(s) \o <<"-", "-", "-", "-">> : s \in CanonicalStrings}
    \cup {StripHyphens(s) \o <<"g", "g", "g", "g">> : s \in CanonicalStrings}
    \cup {Remove(s, 36) : s \in CanonicalStrings}
    \cup {Append(s, "0") : s \in CanonicalStrings}
    \cup {<<"2", "2">>, <<>>}

(* ---------------------------------------------------------------- state *)

NoOp == [name |-> "none", date |-> Undefined, ticks |-> Undefined, nodeId |-> Undefined,
         clockId |-> Undefined, value |-> <<>>, this |-> <<>>, wall |-> Zero]
NoRet == [ok |-> FALSE, buffer |-> <<>>]
NoOut == [name |-> "none", date |-> Zero, ticks |-> 0, text |-> <<>>, bytes |-> <<>>,
          flag |-> FALSE]
NoBound == [ok |-> FALSE, buffer |-> <<>>, date |-> Undefined, ticks |-> Undefined]

\* The process has just started ...
InitStart ==
  /\ _ticks = 0 /\ _ticksForCurrentTime = 0 /\ _lastTimestamp = Zero
  /\ clock = 0

\* ... or has run: its last current-time call read the wall clock at NowBase.
InitRunning ==
  /\ _ticks \in StartTicks
  /\ _ticksForCurrentTime \in StartCurrent
  /\ _lastTimestamp = Wall(0)
  /\ clock = 0

InitRest ==
  /\ op = NoOp /\ ret = NoRet /\ out = NoOut /\ calls = 0
  /\ first = <<>> /\ inMs = 0 /\ lower = NoBound /\ upper = NoBound

Init == (InitStart \/ InitRunning) /\ InitRest

\* A call returned r: the counters and the result are as it left them.
Returned(r) ==
  /\ _ticks' = r._ticks
  /\ _ticksForCurrentTime' = r._ticksForCurrentTime
  /\ _lastTimestamp' = r._lastTimestamp
  /\ ret' = [ok |-> r.ok, buffer |-> r.buffer]
  /\ out' = NoOut

Idle == op.name = "none"
Histories == <<first, inMs, lower, upper>>

(* -------------------------------------------------------------- actions *)

\* The wall clock advances by a millisecond, between two calls.
Tick ==
  /\ Idle /\ clock < MaxClock
  /\ clock' = clock + 1
  /\ inMs' = 0 /\ first' = <<>>
  /\ UNCHANGED <<_ticks, _ticksForCurrentTime, _lastTimestamp, op, ret, out, calls,
                 lower, upper>>

\* TimeUuid.fromDate(date, ticks, nodeId, clockId), new TimeUuid(date, ...)
FromDate ==
  /\ Idle /\ calls < MaxCalls
  /\ \E date \in DateArgs, ticks \in TickArgs, nodeId \in NodeArgs, clockId \in ClockArgs :
       \E random \in RandomFor(nodeId, clockId) :
         /\ Returned(fromDate(date, ticks, nodeId, clockId, Wall(clock), random))
         /\ op' = [NoOp EXCEPT !.name = "fromDate", !.date = date, !.ticks = ticks,
                               !.nodeId = nodeId, !.clockId = clockId, !.wall = Wall(clock)]
  /\ calls' = calls + 1
  /\ UNCHANGED <<clock, Histories>>

\* TimeUuid.now(nodeId, clockId)
Now ==
  /\ Idle /\ calls < MaxCalls
  /\ \E nodeId \in NodeArgs, clockId \in ClockArgs :
       \E random \in RandomFor(nodeId, clockId) :
         /\ Returned(now(nodeId, clockId, Wall(clock), random))
         /\ op' = [NoOp EXCEPT !.name = "now", !.nodeId = nodeId, !.clockId = clockId,
                               !.wall = Wall(clock)]
  /\ calls' = calls + 1
  /\ UNCHANGED <<clock, Histories>>

\* TimeUuid.min(date, ticks)
Min ==
  /\ Idle /\ calls < MaxCalls
  /\ \E date \in DateArgs, ticks \in TickArgs :
       /\ Returned(min(date, ticks, Wall(clock), [node |-> <<>>, clock |-> <<>>]))
       /\ op' = [NoOp EXCEPT !.name = "min", !.date = date, !.ticks = ticks,
                             !.nodeId = BufferArg(minNodeId), !.clockId = BufferArg(minClockId),
                             !.wall = Wall(clock)]
  /\ calls' = calls + 1
  /\ UNCHANGED <<clock, Histories>>

\* TimeUuid.max(date, ticks)
Max ==
  /\ Idle /\ calls < MaxCalls
  /\ \E date \in DateArgs, ticks \in TickArgs :
       /\ Returned(max(date, ticks, Wall(clock), [node |-> <<>>, clock |-> <<>>]))
       /\ op' = [NoOp EXCEPT !.name = "max", !.date = date, !.ticks = ticks,
                             !.nodeId = BufferArg(maxNodeId), !.clockId = BufferArg(maxClockId),
                             !.wall = Wall(clock)]
  /\ calls' = calls + 1
  /\ UNCHANGED <<clock, Histories>>

\* new TimeUuid(buffer)
FromBuffer ==
  /\ Idle
  /\ \E buffer \in WrappedBuffers :
       /\ Returned(TimeUuid(BufferArg(buffer), Undefined, Undefined, Undefined,
                            Wall(clock), [node |-> <<>>, clock |-> <<>>]))
       /\ op' = [NoOp EXCEPT !.name = "fromBuffer", !.value = buffer]
  /\ UNCHANGED <<clock, calls, Histories>>

\* new Uuid(buffer)
NewUuid ==
  /\ Idle
  /\ \E buffer \in WrappedBuffers :
       /\ ret' = Uuid(buffer)
       /\ op' = [NoOp EXCEPT !.name = "newUuid", !.value = buffer]
  /\ out' = NoOut
  /\ UNCHANGED <<_ticks, _ticksForCurrentTime, _lastTimestamp, clock, calls, Histories>>

\* Uuid.random()
Random ==
  /\ Idle
  /\ \E buffer \in RandomBuffers :
       /\ ret' = createUuidFromBuffer(buffer)
       /\ op' = [NoOp EXCEPT !.name = "random", !.value = buffer]
  /\ out' = NoOut
  /\ UNCHANGED <<_ticks, _ticksForCurrentTime, _lastTimestamp, clock, calls, Histories>>

\* Uuid.fromString(value)
UuidFromString ==
  /\ Idle
  /\ \E value \in StringInputs :
       /\ ret' = fromString(value)
       /\ op' = [NoOp EXCEPT !.name = "fromString", !.value = value]
  /\ out' = NoOut
  /\ UNCHANGED <<_ticks, _ticksForCurrentTime, _lastTimestamp, clock, calls, Histories>>

\* TimeUuid.fromString(value)
TimeFromString ==
  /\ Idle
  /\ \E value \in StringInputs :
       /\ Returned(TimeUuidFromString(value, Wall(clock), [node |-> <<>>, clock |-> <<>>]))
       /\ op' = [NoOp EXCEPT !.name = "timeFromString", !.value = value]
  /\ UNCHANGED <<clock, calls, Histories>>

\* The calls that return a TimeUuid, and those that return a Uuid.
TimeOps == {"fromDate", "now", "min", "max", "fromBuffer", "timeFromString", "getBefore"}
UuidOps == {"newUuid", "random", "fromString", "parseText"}
Generators == {"fromDate", "now", "min", "max"}

\* this.getBefore(), of the TimeUuid last returned
GetBefore ==
  /\ op.name \in TimeOps /\ ret.ok /\ calls < MaxCalls
  /\ Returned(getBefore(ret.buffer, Wall(clock), [node |-> <<>>, clock |-> <<>>]))
  /\ op' = [NoOp EXCEPT !.name = "getBefore", !.this = ret.buffer, !.wall = Wall(clock)]
  /\ calls' = calls + 1
  /\ UNCHANGED <<clock, Histories>>

\* this.getDatePrecision(), of the TimeUuid last returned
GetDatePrecision ==
  /\ op.name \in TimeOps /\ ret.ok
  /\ out' = [NoOut EXCEPT !.name = "getDatePrecision",
                          !.date = getDatePrecision(ret.buffer).date,
                          !.ticks = getDatePrecision(ret.buffer).ticks]
  /\ UNCHANGED <<_ticks, _ticksForCurrentTime, _lastTimestamp, clock, op, ret, calls, Histories>>

\* this.toString(), of the instance last returned
ToString ==
  /\ op.name \in TimeOps \cup UuidOps /\ ret.ok
  /\ out' = [NoOut EXCEPT !.name = "toString", !.text = toString(ret.buffer)]
  /\ UNCHANGED <<_ticks, _ticksForCurrentTime, _lastTimestamp, clock, op, ret, calls, Histories>>

\* Uuid.fromString(text), of the text toString just returned for the instance held
ParseText ==
  /\ out.name = "toString"
  /\ ret' = fromString(out.text)
  /\ op' = [NoOp EXCEPT !.name = "parseText", !.value = out.text, !.this = ret.buffer]
  /\ out' = NoOut
  /\ UNCHANGED <<_ticks, _ticksForCurrentTime, _lastTimestamp, clock, calls, Histories>>

\* The caller lets go of the instance it was returned.
Drop ==
  /\ ~Idle
  /\ op' = NoOp /\ ret' = NoRet /\ out' = NoOut
  /\ UNCHANGED <<_ticks, _ticksForCurrentTime, _lastTimestamp, clock, calls, Histories>>

\* The process: the calls that generate identifiers, and what is done with them.
Next ==
  \/ Tick \/ FromDate \/ Now \/ Min \/ Max \/ FromBuffer \/ Random
  \/ GetBefore \/ GetDatePrecision \/ Drop

\* The representation alone: wrapping, parsing and printing, which use no counter.
NextUuid ==
  \/ NewUuid \/ FromBuffer \/ Random \/ UuidFromString \/ TimeFromString
  \/ ToString \/ ParseText \/ Drop

InitUuid == InitStart /\ InitRest

SpecUuid == InitUuid /\ [][NextUuid]_vars

(* ------------------------------------------- a run of equal explicit calls *)

\* The call of the test "should collide exactly at 10001": an explicit date, no
\* ticks, the node and the clock given.
SameDates  == {DateArg(Date2015)}
SameNodes  == {StringArg(<<"h", "o", "s", "t", "0", "1">>)}
SameClocks == {StringArg(<<"A", "A">>)}
NoRandom   == [node |-> <<>>, clock |-> <<>>]

\* The first call of the run.
SameFirst ==
  /\ Idle /\ calls = 0
  /\ \E date \in SameDates, nodeId \in SameNodes, clockId \in SameClocks :
       /\ Returned(fromDate(date, Undefined, nodeId, clockId, Wall(clock), NoRandom))
       /\ op' = [NoOp EXCEPT !.name = "fromDate", !.date = date, !.nodeId = nodeId,
                             !.clockId = clockId, !.wall = Wall(clock)]
  /\ calls' = 1
  /\ first' = ret'.buffer
  /\ UNCHANGED <<clock, inMs, lower, upper>>

\* The same call again, up to the 10001st.
SameAgain ==
  /\ op.name = "fromDate" /\ calls >= 1 /\ calls <= _ticksInMs
  /\ Returned(fromDate(op.date, op.ticks, op.nodeId, op.clockId, Wall(clock), NoRandom))
  /\ calls' = calls + 1
  /\ UNCHANGED <<clock, op, first, inMs, lower, upper>>

NextSame == SameFirst \/ SameAgain

\* The process at its start, or running with _ticks anywhere in its cycle.
InitSame ==
  /\ InitStart \/ (InitRunning /\ _ticksForCurrentTime = 9999)
  /\ InitRest

SpecSame == InitSame /\ [][NextSame]_vars

(* ------------------------------------ a run of equal current-time calls *)

\* The process has run, and the wall clock has moved since its last current-time
\* call: no call has read the millisecond the clock shows.
InitNewMs ==
  /\ _ticks \in StartTicks
  /\ _ticksForCurrentTime \in StartCurrent
  /\ _lastTimestamp = Wall(0)
  /\ clock = 1

InitNow == (InitStart \/ InitNewMs) /\ InitRest

\* TimeUuid.now(nodeId, clockId) with the same node and clock, up to 10002 times in a
\* millisecond.
NowAgain ==
  /\ inMs <= _ticksInMs + 1
  /\ \E nodeId \in SameNodes, clockId \in SameClocks :
       /\ Returned(now(nodeId, clockId, Wall(clock), NoRandom))
       /\ op' = [NoOp EXCEPT !.name = "now", !.nodeId = nodeId, !.clockId = clockId,
                             !.wall = Wall(clock)]
  /\ inMs' = inMs + 1
  /\ first' = IF inMs = 0 THEN ret'.buffer ELSE first
  /\ UNCHANGED <<clock, calls, lower, upper>>

\* The wall clock advances by a millisecond between two of the calls.
TickNow ==
  /\ clock < MaxClock
  /\ clock' = clock + 1
  /\ inMs' = 0 /\ first' = <<>>
  /\ UNCHANGED <<_ticks, _ticksForCurrentTime, _lastTimestamp, op, ret, out, calls,
                 lower, upper>>

NextNow == NowAgain \/ TickNow

SpecNow == InitNow /\ [][NextNow]_vars

(* ------------------------------------------------------ range boundaries *)

\* The calls a range query makes, in any order.
MaxRangeCalls == 3

RangeDates == {DateArg(GregorianEpoch), DateArg(Date2015)}
RangeTicks == {Undefined, Number(0), Number(9999)}
RangeNodes == {Undefined, StringArg(<<"h", "o", "s", "t", "0", "1">>)}
RangeClocks == {Undefined, BufferArg(<<255, 255>>)}

\* lower = TimeUuid.min(date, ticks)
RangeMin ==
  /\ ~lower.ok /\ calls < MaxRangeCalls
  /\ \E date \in RangeDates, ticks \in RangeTicks :
       /\ Returned(min(date, ticks, Wall(clock), NoRandom))
       /\ op' = [NoOp EXCEPT !.name = "min", !.date = date, !.ticks = ticks,
                             !.nodeId = BufferArg(minNodeId), !.clockId = BufferArg(minClockId),
                             !.wall = Wall(clock)]
       /\ lower' = [ok |-> ret'.ok, buffer |-> ret'.buffer, date |-> date, ticks |-> ticks]
  /\ calls' = calls + 1
  /\ UNCHANGED <<clock, first, inMs, upper>>

\* upper = TimeUuid.max(date, ticks)
RangeMax ==
  /\ ~upper.ok /\ calls < MaxRangeCalls
  /\ \E date \in RangeDates, ticks \in RangeTicks :
       /\ Returned(max(date, ticks, Wall(clock), NoRandom))
       /\ op' = [NoOp EXCEPT !.name = "max", !.date = date, !.ticks = ticks,
                             !.nodeId = BufferArg(maxNodeId), !.clockId = BufferArg(maxClockId),
                             !.wall = Wall(clock)]
       /\ upper' = [ok |-> ret'.ok, buffer |-> ret'.buffer, date |-> date, ticks |-> ticks]
  /\ calls' = calls + 1
  /\ UNCHANGED <<clock, first, inMs, lower>>

\* An identifier of the range: TimeUuid.fromDate(date, ticks, nodeId, clockId)
RangeGenerate ==
  /\ calls < MaxRangeCalls
  /\ \E date \in RangeDates, ticks \in RangeTicks, nodeId \in RangeNodes,
        clockId \in RangeClocks :
       \E random \in RandomFor(nodeId, clockId) :
         /\ Returned(fromDate(date, ticks, nodeId, clockId, Wall(clock), random))
         /\ op' = [NoOp EXCEPT !.name = "fromDate", !.date = date, !.ticks = ticks,
                               !.nodeId = nodeId, !.clockId = clockId, !.wall = Wall(clock)]
  /\ calls' = calls + 1
  /\ UNCHANGED <<clock, Histories>>

NextRange == RangeMin \/ RangeMax \/ RangeGenerate

InitRange == (InitStart \/ (InitRunning /\ _ticksForCurrentTime = 9999)) /\ InitRest

SpecRange == InitRange /\ [][NextRange]_vars

(* ------------------------------------------- identifiers and their fields *)

\* Node ids and clock ids of every length around the 6 and the 2 bytes asked for, as
\* strings and as buffers, and with every setting of the bits the variant overwrites.
LengthNodes ==
  {Undefined,
   StringArg(<<>>), StringArg(<<"h", "o", "s", "t", "0">>),
   StringArg(<<"h", "o", "s", "t", "0", "1">>),
   StringArg(<<"h", "o", "s", "t", "0", "1", "1">>),
   BufferArg(<<>>), BufferArg(<<1, 2, 3, 4, 5>>), BufferArg(<<1, 2, 3, 4, 5, 6>>),
   BufferArg(<<255, 128, 127, 0, 1, 254>>), BufferArg(<<1, 2, 3, 4, 5, 6, 7>>)}
LengthClocks ==
  {Undefined,
   StringArg(<<"A">>), StringArg(<<"A", "A">>), StringArg(<<"A", "A", "A">>),
   BufferArg(<<>>), BufferArg(<<1>>), BufferArg(<<0, 0>>), BufferArg(<<129, 7>>),
   BufferArg(<<191, 255>>), BufferArg(<<255, 255>>), BufferArg(<<1, 2, 3>>)}
IdDates == {Undefined, DateArg(Date2015)}
IdTicks == {Undefined, Number(699)}

\* TimeUuid.fromDate(date, ticks, nodeId, clockId) with those node ids and clock ids
GenerateIds ==
  /\ Idle /\ calls < MaxCalls
  /\ \E date \in IdDates, ticks \in IdTicks, nodeId \in LengthNodes, clockId \in LengthClocks :
       \E random \in RandomFor(nodeId, clockId) :
         /\ Returned(fromDate(date, ticks, nodeId, clockId, Wall(clock), random))
         /\ op' = [NoOp EXCEPT !.name = "fromDate", !.date = date, !.ticks = ticks,
                               !.nodeId = nodeId, !.clockId = clockId, !.wall = Wall(clock)]
  /\ calls' = calls + 1
  /\ UNCHANGED <<clock, Histories>>

\* this.getNodeId(), of the TimeUuid last returned
GetNodeId ==
  /\ op.name \in TimeOps /\ ret.ok
  /\ out' = [NoOut EXCEPT !.name = "getNodeId", !.bytes = NodeIdOf(ret.buffer)]
  /\ UNCHANGED <<_ticks, _ticksForCurrentTime, _lastTimestamp, clock, op, ret, calls, Histories>>

\* this.getClockId(), of the TimeUuid last returned
GetClockId ==
  /\ op.name \in TimeOps /\ ret.ok
  /\ out' = [NoOut EXCEPT !.name = "getClockId", !.bytes = ClockIdOf(ret.buffer)]
  /\ UNCHANGED <<_ticks, _ticksForCurrentTime, _lastTimestamp, clock, op, ret, calls, Histories>>

\* this.getNodeIdString(), of the TimeUuid last returned
GetNodeIdString ==
  /\ op.name \in TimeOps /\ ret.ok
  /\ out' = [NoOut EXCEPT !.name = "getNodeIdString", !.bytes = getNodeIdString(ret.buffer)]
  /\ UNCHANGED <<_ticks, _ticksForCurrentTime, _lastTimestamp, clock, op, ret, calls, Histories>>

NextIds ==
  \/ GenerateIds \/ NewUuid \/ FromBuffer
  \/ GetNodeId \/ GetClockId \/ GetNodeIdString \/ Drop

InitIds == (InitStart \/ InitRunning) /\ InitRest

SpecIds == InitIds /\ [][NextIds]_vars

(* ------------------------------------------------- comparing identifiers *)

\* Two identifiers a (held in lower) and b (in upper), each generated from a date and
\* ticks given, and the comparisons of a with b.
OrderDates == {DateArg(GregorianEpoch), DateArg(UnixEpoch), DateArg(Date2015),
               DateArg(NowBase), DateArg(LastDate60)}
OrderTicks == {Number(0), Number(1), Number(699), Number(6975)}

\* a = TimeUuid.fromDate(date, ticks)
OrderFirst ==
  /\ ~lower.ok
  /\ \E date \in OrderDates, ticks \in OrderTicks :
       \E random \in RandomFor(Undefined, Undefined) :
         /\ Returned(fromDate(date, ticks, Undefined, Undefined, Wall(clock), random))
         /\ op' = [NoOp EXCEPT !.name = "fromDate", !.date = date, !.ticks = ticks,
                               !.wall = Wall(clock)]
         /\ lower' = [ok |-> ret'.ok, buffer |-> ret'.buffer, date |-> date, ticks |-> ticks]
  /\ UNCHANGED <<clock, calls, first, inMs, upper>>

\* b = TimeUuid.fromDate(date, ticks)
OrderSecond ==
  /\ lower.ok /\ ~upper.ok
  /\ \E date \in OrderDates, ticks \in OrderTicks :
       \E random \in RandomFor(Undefined, Undefined) :
         /\ Returned(fromDate(date, ticks, Undefined, Undefined, Wall(clock), random))
         /\ op' = [NoOp EXCEPT !.name = "fromDate", !.date = date, !.ticks = ticks,
                               !.wall = Wall(clock)]
         /\ upper' = [ok |-> ret'.ok, buffer |-> ret'.buffer, date |-> date, ticks |-> ticks]
  /\ UNCHANGED <<clock, calls, first, inMs, lower>>

\* a.isBefore(b)
IsBefore ==
  /\ lower.ok /\ upper.ok
  /\ out' = [NoOut EXCEPT !.name = "isBefore", !.flag = isBefore(lower.buffer, upper.buffer)]
  /\ UNCHANGED <<_ticks, _ticksForCurrentTime, _lastTimestamp, clock, op, ret, calls, Histories>>

\* a.isAfter(b)
IsAfter ==
  /\ lower.ok /\ upper.ok
  /\ out' = [NoOut EXCEPT !.name = "isAfter", !.flag = isAfter(lower.buffer, upper.buffer)]
  /\ UNCHANGED <<_ticks, _ticksForCurrentTime, _lastTimestamp, clock, op, ret, calls, Histories>>

\* TimeUuid.sortAscending(a, b)
SortAscending ==
  /\ lower.ok /\ upper.ok
  /\ out' = [NoOut EXCEPT !.name = "sortAscending",
                          !.ticks = sortAscending(lower.buffer, upper.buffer)]
  /\ UNCHANGED <<_ticks, _ticksForCurrentTime, _lastTimestamp, clock, op, ret, calls, Histories>>

\* TimeUuid.sortDescending(a, b)
SortDescending ==
  /\ lower.ok /\ upper.ok
  /\ out' = [NoOut EXCEPT !.name = "sortDescending",
                          !.ticks = sortDescending(lower.buffer, upper.buffer)]
  /\ UNCHANGED <<_ticks, _ticksForCurrentTime, _lastTimestamp, clock, op, ret, calls, Histories>>

NextOrder ==
  \/ OrderFirst \/ OrderSecond
  \/ IsBefore \/ IsAfter \/ SortAscending \/ SortDescending

InitOrder == InitStart /\ InitRest

SpecOrder == InitOrder /\ [][NextOrder]_vars

(* ------------------------------------- the sequence of the explicit calls *)

\* Calls with a date and no usable ticks, for different dates, from the start of the
\* process: up to 10001 of them.
SeqDates == {DateArg(UnixEpoch), DateArg(Date2015)}
SeqTicks == {Undefined, Number(10000)}

\* TimeUuid.fromDate(date, ticks, "host01", "AA")
SeqDraw ==
  /\ calls <= _ticksInMs
  /\ \E date \in SeqDates, ticks \in SeqTicks, nodeId \in SameNodes, clockId \in SameClocks :
       /\ Returned(fromDate(date, ticks, nodeId, clockId, Wall(clock), NoRandom))
       /\ op' = [NoOp EXCEPT !.name = "fromDate", !.date = date, !.ticks = ticks,
                             !.nodeId = nodeId, !.clockId = clockId, !.wall = Wall(clock)]
  /\ calls' = calls + 1
  /\ UNCHANGED <<clock, Histories>>

NextSeq == SeqDraw

InitSeq == InitStart /\ InitRest

SpecSeq == InitSeq /\ [][NextSeq]_vars

(* --------------------------------------- every way to an identifier *)

\* this.equals(other), of the instance last returned and the one it was made from:
\* the TimeUuid getBefore was called on, or the instance whose text was parsed.
Equals ==
  /\ op.name \in {"getBefore", "parseText"} /\ ret.ok
  /\ out' = [NoOut EXCEPT !.name = "equals", !.flag = (ret.buffer = op.this)]
  /\ UNCHANGED <<_ticks, _ticksForCurrentTime, _lastTimestamp, clock, op, ret, calls, Histories>>

\* Every call that makes an identifier and every call on an identifier, within one
\* millisecond of the wall clock.
NextAll ==
  \/ FromDate \/ Now \/ Min \/ Max \/ GetBefore
  \/ NewUuid \/ FromBuffer \/ Random \/ UuidFromString \/ TimeFromString \/ ParseText
  \/ ToString \/ Equals \/ GetDatePrecision \/ GetNodeId \/ GetClockId \/ GetNodeIdString
  \/ Drop

InitAll == InitStart /\ InitRest

SpecAll == InitAll /\ [][NextAll]_vars

Spec == Init /\ [][Next]_vars

(* =============================================================== claims *)

\* The call last made took the current time: its date was absent or invalid.
NowPath(o) == o.name \in Generators /\ o.date.kind # "date"

\* C1: when fromDate is called again and again with the same explicit valid date,
\* node id and clock id and no ticks, from any state of the counters, the first 10000
\* calls return 10000 different identifiers and the 10001st returns the identifier
\* the 1st returned.  The k-th call returns the date given and the ticks of the first
\* call plus k - 1 modulo 10000, which differ for any two of the first 10000 calls;
\* it returns the first identifier exactly when k is 1 or 10001.
C1_SameCallsCollideAt10001 ==
  (op.name = "fromDate" /\ calls >= 1) =>
     /\ ret.ok
     /\ getDatePrecision(ret.buffer).date = op.date.time
     /\ getDatePrecision(ret.buffer).ticks =
          (getDatePrecision(first).ticks + calls - 1) % _ticksInMs
     /\ (ret.buffer = first) <=> (calls \in {1, _ticksInMs + 1})

\* The 10001st call has been made: it returned the first identifier again.
C1_Witness ==
  /\ op.name = "fromDate" /\ calls = _ticksInMs + 1
  /\ ret.ok /\ ret.buffer = first

\* C2: a call that takes the current time (date absent or invalid) and reads a wall
\* clock later than _lastTimestamp, the millisecond of the current-time call before
\* it, records that millisecond in _lastTimestamp and returns an identifier that
\* decodes to that millisecond and to ticks 0.
C2_FirstCallOfMillisecondGetsTickZero ==
  [][(calls' = calls + 1 /\ NowPath(op') /\ Less(_lastTimestamp, op'.wall)) =>
       /\ _lastTimestamp' = op'.wall
       /\ _ticksForCurrentTime' = 0
       /\ ret'.ok => getDatePrecision(ret'.buffer) = [date |-> op'.wall, ticks |-> 0]]_vars

\* A current-time call has read the millisecond after the one of the call before it,
\* and returned ticks 0 for it.
C2_Witness ==
  /\ op.name = "now" /\ ret.ok /\ clock = 1
  /\ op.wall = Wall(1) /\ _lastTimestamp = Wall(1)
  /\ getDatePrecision(ret.buffer) = [date |-> Wall(1), ticks |-> 0]

\* C3: all the now() calls that read the same millisecond, with the same
\* node id and clock id, return different identifiers (here: none returns the
\* identifier the first of them returned), and up to ticks 9999 each gets one tick
\* more than the call before.
C3_Original ==
  (op.name = "now" /\ inMs >= 2) =>
     /\ ret.buffer # first
     /\ inMs <= _ticksInMs => getDatePrecision(ret.buffer).ticks = inMs - 1

\* 2^60: the timestamps a version 1 identifier holds are 0 .. 2^60 - 1.
TwoTo60 == <<0, 115, 2921, 5046, 684, 6976>>

\* The 100-nanosecond count of millisecond time and ticks fits the 60 bits.
InRange60(time, ticks) ==
  LET val == Add(Times10000(Add(time, _unixToGregorian)), FromInt(ticks))
  IN  ~IsNeg(val) /\ Less(val, TwoTo60)

\* The time and the ticks the call last made resolved: the date given or the wall
\* clock, and the ticks given or the counter that supplied them.
TimeUsed == IF op.date.kind = "date" THEN op.date.time ELSE op.wall
TicksUsed ==
  IF op.date.kind = "date"
  THEN IF op.ticks.kind = "number" /\ op.ticks.n < _ticksInMs THEN op.ticks.n ELSE _ticks
  ELSE IF _ticksForCurrentTime < _ticksInMs THEN _ticksForCurrentTime ELSE _ticks

\* C4 as amended: getDatePrecision returns the time T and the resolved ticks t of
\* every identifier a generating call packed from them, whether t was given or drawn
\* from a counter, when t is in 0..9999 and (T + 12219292800000) * 10000 + t is in
\* 0 .. 2^60 - 1.
C4_DecodeInvertsPackingInRange ==
  (out.name = "getDatePrecision" /\ op.name \in Generators
     /\ TicksUsed \in 0..(_ticksInMs - 1) /\ InRange60(TimeUsed, TicksUsed)) =>
       (out.date = TimeUsed /\ out.ticks = TicksUsed)

\* The test's identifier, of 2015-01-10 05:05:05 and ticks 699, has been decoded.
C4_Witness ==
  /\ out.name = "getDatePrecision" /\ op.name = "fromDate"
  /\ op.date = DateArg(Date2015) /\ op.ticks = Number(699)
  /\ out.date = Date2015 /\ out.ticks = 699

\* C4: getDatePrecision returns the time T and the resolved ticks t of every
\* identifier a generating call packed from them.
C4_Original ==
  (out.name = "getDatePrecision" /\ op.name \in Generators) =>
     (out.date = TimeUsed /\ out.ticks = TicksUsed)

C8_VersionAndVariantBits ==
  (ret.ok /\ op.name \in Generators \cup {"getBefore", "random"}) =>
     LET s == toString(ret.buffer)
         version == IF op.name = "random" THEN 4 ELSE 1
     IN  /\ ret.buffer[7] \div 16 = version
         /\ s[15] = HexDigits[version + 1]
         /\ ret.buffer[9] \div 64 = 2
         /\ s[20] \in {"8", "9", "a", "b"}

\* A version 1 identifier of a date past the 60 bits, and a version 4 identifier of
\* random bytes that had every bit set where the version and the variant go.
C8_Witness ==
  \/ /\ op.name = "fromDate" /\ ret.ok /\ op.date = DateArg(DateOver60)
     /\ ret.buffer[7] \div 16 = 1
  \/ /\ op.name = "random" /\ ret.ok /\ op.value[7] = 255 /\ op.value[9] = 255
     /\ ret.buffer[7] \div 16 = 4 /\ ret.buffer[9] \div 64 = 2

\* A byte read as a signed byte.
SignedByte(b) == IF b >= 128 THEN b - 256 ELSE b

RECURSIVE LexLeq(_, _, _)
\* Bytes i.. of a are at most those of b, compared in order as signed bytes.
LexLeq(a, b, i) ==
  IF i > Len(a) THEN TRUE
  ELSE IF SignedByte(a[i]) # SignedByte(b[i]) THEN SignedByte(a[i]) < SignedByte(b[i])
  ELSE LexLeq(a, b, i + 1)

\* Identifier a is at most identifier b: by the decoded time, then the decoded ticks,
\* then bytes 8-15 as signed bytes.
LeqIds(a, b) ==
  LET da == getDatePrecision(a)
      db == getDatePrecision(b)
  IN  \/ Less(da.date, db.date)
      \/ da.date = db.date /\ da.ticks < db.ticks
      \/ da.date = db.date /\ da.ticks = db.ticks /\ LexLeq(a, b, 9)

\* The identifier fromDate last returned is one the boundary b bounds: generated for
\* the boundary's date, and for its ticks when the boundary was given ticks.
InRangeOf(b) ==
  /\ b.ok /\ op.name = "fromDate" /\ ret.ok
  /\ op.date = b.date
  /\ b.ticks.kind = "number" => op.ticks = b.ticks

\* C7: for every date, with ticks given or not, min(date, ticks) is at most and
\* max(date, ticks) at least every identifier fromDate returns for that date (and
\* those ticks, when given), compared by decoded time, then ticks, then bytes 8-15 as
\* signed bytes; min has the node bytes 80 80 80 80 80 80, max 7f 7f 7f 7f 7f 7f.
C7_Original ==
  /\ InRangeOf(lower) => LeqIds(lower.buffer, ret.buffer)
  /\ InRangeOf(upper) => LeqIds(ret.buffer, upper.buffer)
  /\ lower.ok => NodeIdOf(lower.buffer) = <<128, 128, 128, 128, 128, 128>>
  /\ upper.ok => NodeIdOf(upper.buffer) = <<127, 127, 127, 127, 127, 127>>

\* The string has the canonical shape: 36 characters, hyphens at offsets 8, 13, 18
\* and 23, a hexadecimal digit of either case at every other offset.
CanonicalShape(s) ==
  /\ Len(s) = 36
  /\ \A i \in 1..36 : IF i \in {9, 14, 19, 24} THEN s[i] = "-" ELSE HexVal(s[i]) >= 0

\* ... and every digit of it is in lower case.
CanonicalLower(s) ==
  /\ CanonicalShape(s)
  /\ \A i \in 1..36 : s[i] = "-" \/ \E k \in 1..16 : HexDigits[k] = s[i]

ParseOps == {"fromString", "timeFromString"}

\* C9: Uuid.fromString and TimeUuid.fromString accept a string only if it has 36
\* characters, hyphens at offsets 8, 13, 18 and 23 and hexadecimal digits at every
\* other offset; every other string is rejected with an error.
C9_Original ==
  (op.name \in ParseOps) => (ret.ok => CanonicalShape(op.value))

\* C10 as amended: for every 16-byte buffer b, parsing the string of the instance
\* that holds b returns an instance that holds b; and for every string s that
\* Uuid.fromString or TimeUuid.fromString accepts, the string of the instance parsed
\* is s exactly when s is in canonical form with its digits in lower case (for every
\* other accepted s it is the canonical lower-case string of the bytes parsed).
C10_RoundTripOfCanonicalLowerCase ==
  /\ (op.name = "parseText") => (ret.ok /\ ret.buffer = op.this)
  /\ (out.name = "toString" /\ op.name \in ParseOps) =>
       /\ (out.text = op.value) <=> CanonicalLower(op.value)
       /\ CanonicalLower(out.text)
       /\ fromString(out.text) = Instance(ret.buffer)

\* The string of the test's identifier acb1ccdd-eeff-0011-2233-445566778813 has been
\* parsed back into its bytes.
C10_Witness ==
  /\ op.name = "parseText" /\ ret.ok
  /\ op.this = <<172, 177, 204, 221, 238, 255, 0, 17, 34, 51, 68, 85, 102, 119, 136, 19>>
  /\ ret.buffer = op.this

\* C10: for every 16-byte buffer b, parsing the string of the instance that holds b
\* returns an instance that holds b, and for every string s that is accepted the
\* string of the instance parsed is s.
C10_Original ==
  /\ (op.name = "parseText") => (ret.ok /\ ret.buffer = op.this)
  /\ (out.name = "toString" /\ op.name \in ParseOps) => out.text = op.value

\* The length of a node id or clock id given, in bytes: a string has a byte a character.
ArgLength(a) == IF a.kind = "string" THEN Len(a.chars) ELSE Len(a.bytes)
\* The argument is absent or holds n bytes.
LengthOk(a, n) == a.kind = "undefined" \/ ArgLength(a) = n

ArgBytes(a) == IF a.kind = "string" THEN AsciiBytes(a.chars) ELSE a.bytes

\* The call last made generated an identifier from a node id and a clock id given.
GivenNodeAndClock ==
  /\ op.name \in Generators /\ ret.ok
  /\ op.nodeId.kind # "undefined" /\ op.clockId.kind # "undefined"

\* C12: of an identifier generated with a node id n of 6 bytes (or a string of 6 ASCII
\* characters) and a clock id c of 2 bytes, getNodeId returns n, getNodeIdString
\* returns the string given (character code for character code), and getClockId
\* returns c with the top two bits of its first byte made 10: c itself exactly when
\* its first byte is in 0x80..0xbf.
C12_NodeAndClockRoundTrip ==
  GivenNodeAndClock =>
    /\ out.name = "getNodeId" => out.bytes = ArgBytes(op.nodeId)
    /\ (out.name = "getNodeIdString" /\ op.nodeId.kind = "string") =>
          out.bytes = AsciiBytes(op.nodeId.chars)
    /\ out.name = "getClockId" =>
          LET c == ArgBytes(op.clockId)
          IN  /\ out.bytes = <<(c[1] % 64) + 128, c[2]>>
              /\ (out.bytes = c) <=> (c[1] \in 128..191)

\* getClockId returned bf ff for the clock id ff ff given with a node id of high bytes.
C12_Witness ==
  /\ GivenNodeAndClock /\ out.name = "getClockId"
  /\ op.nodeId = BufferArg(<<255, 128, 127, 0, 1, 254>>)
  /\ op.clockId = BufferArg(<<255, 255>>)
  /\ out.bytes = <<191, 255>>

\* The (time, ticks) pair identifier x was generated from is below that of y.
PairBelow(x, y) ==
  \/ Less(x.date.time, y.date.time)
  \/ x.date.time = y.date.time /\ x.ticks.n < y.ticks.n

RECURSIVE RawBelow(_, _, _)
\* The bytes of a are below those of b from byte i on, as unsigned bytes in order.
RawBelow(a, b, i) ==
  IF i > Len(a) THEN FALSE
  ELSE IF a[i] # b[i] THEN a[i] < b[i]
  ELSE RawBelow(a, b, i + 1)

GeneratingStep == calls' = calls + 1 /\ op'.name \in Generators

\* C14: a generating call that takes the current time (date absent or invalid) leaves
\* _ticks, the counter of the calls with a date, as it was, and a generating call
\* with a date leaves _ticksForCurrentTime and _lastTimestamp as they were.
C14_Original ==
  [][GeneratingStep =>
       IF op'.date.kind # "date"
       THEN _ticks' = _ticks
       ELSE _ticksForCurrentTime' = _ticksForCurrentTime /\ _lastTimestamp' = _lastTimestamp]_vars

\* C15: after every now() call _ticksForCurrentTime is in 0..9999 and is the ticks of
\* the identifier returned; a now() call that reads the millisecond of _lastTimestamp
\* while _ticksForCurrentTime is 9999 sets it to 0 and leaves _lastTimestamp.
C15_Original ==
  [][(inMs' = inMs + 1 /\ op'.name = "now") =>
       /\ _ticksForCurrentTime' \in 0..(_ticksInMs - 1)
       /\ ret'.ok => getDatePrecision(ret'.buffer).ticks = _ticksForCurrentTime'
       /\ (_ticksForCurrentTime = _ticksInMs - 1 /\ op'.wall = _lastTimestamp) =>
            (_ticksForCurrentTime' = 0 /\ _lastTimestamp' = _lastTimestamp)]_vars

\* The (time, ticks) pair of identifier a is below that of identifier b.
DecodedBelow(a, b) ==
  LET da == getDatePrecision(a)
      db == getDatePrecision(b)
  IN  Less(da.date, db.date) \/ (da.date = db.date /\ da.ticks < db.ticks)

\* C17: with a wall clock that does not go back, every now() call returns an
\* identifier whose (time, ticks) pair is above that of the now() call before it.
C17_Original ==
  [][(inMs' = inMs + 1 /\ op.name = "now" /\ op'.name = "now" /\ ret.ok /\ ret'.ok) =>
       DecodedBelow(ret.buffer, ret'.buffer)]_vars

\* C19: a generating call that throws for a node id or a clock id of the wrong length
\* leaves _ticks, _ticksForCurrentTime and _lastTimestamp as they were.
C19_Original ==
  [][(GeneratingStep /\ ~ret'.ok) =>
       /\ _ticks' = _ticks
       /\ _ticksForCurrentTime' = _ticksForCurrentTime
       /\ _lastTimestamp' = _lastTimestamp]_vars

\* C16 as amended: _ticks starts at 0, and every call with a date and with ticks that
\* are absent or 10000 or more first increments _ticks modulo 10000 and then returns
\* it, whatever the date: the k-th such call of a process returns the date given and
\* ticks k mod 10000, so the first returns 1 and the 10000th returns 0.
C16_SequenceIsPreIncremented ==
  (op.name = "fromDate" /\ calls >= 1) =>
     /\ ret.ok
     /\ _ticks = calls % _ticksInMs
     /\ getDatePrecision(ret.buffer) = [date |-> op.date.time, ticks |-> calls % _ticksInMs]

\* The 10000th call, for 2015-01-10 with ticks 10000 given, returned ticks 0.
C16_Witness ==
  /\ op.name = "fromDate" /\ calls = _ticksInMs /\ ret.ok
  /\ op.date = DateArg(Date2015) /\ op.ticks = Number(_ticksInMs)
  /\ getDatePrecision(ret.buffer) = [date |-> Date2015, ticks |-> 0]

\* C16: the k-th call with a date and with ticks that are absent or 10000 or more
\* returns ticks (k - 1) mod 10000, whatever the date: the value of the counter before
\* it is incremented, so the first returns 0.
C16_Original ==
  (op.name = "fromDate" /\ calls >= 1) =>
     /\ ret.ok
     /\ getDatePrecision(ret.buffer) =
          [date |-> op.date.time, ticks |-> (calls - 1) % _ticksInMs]

\* C18 as amended: every identifier that exists has exactly 16 bytes.  Those made by
\* fromDate, now, min, max and getBefore have version 1 and the variant bits 10, those
\* made by Uuid.random version 4 and the variant bits 10; an identifier that wraps a
\* buffer of 16 bytes holds the bytes of the buffer, whatever their version and variant.
C18_SixteenBytesAndStampsOfGenerated ==
  (ret.ok /\ op.name \in TimeOps \cup UuidOps) =>
     /\ Len(ret.buffer) = 16
     /\ op.name \in Generators \cup {"getBefore"} =>
          ret.buffer[7] \div 16 = 1 /\ ret.buffer[9] \div 64 = 2
     /\ op.name = "random" =>
          ret.buffer[7] \div 16 = 4 /\ ret.buffer[9] \div 64 = 2
     /\ op.name \in {"newUuid", "fromBuffer"} => ret.buffer = op.value

\* The Uuid that wraps the bytes of "acb1ccdd-eeff-0011-2233-445566778813", of version
\* 0 and variant bits 00.
C18_Witness ==
  /\ op.name = "newUuid" /\ ret.ok
  /\ ret.buffer = <<172, 177, 204, 221, 238, 255, 0, 17, 34, 51, 68, 85, 102, 119, 136, 19>>
  /\ ret.buffer[7] \div 16 = 0 /\ ret.buffer[9] \div 64 = 0

\* C18: every identifier that exists, however it was made, has exactly 16 bytes, version
\* 1 or 4 and the variant bits 10.
C18_Original ==
  (ret.ok /\ op.name \in TimeOps \cup UuidOps) =>
     /\ Len(ret.buffer) = 16
     /\ ret.buffer[7] \div 16 \in {1, 4}
     /\ ret.buffer[9] \div 64 = 2

\* A step that resolves its ticks from a counter: fromDate, now, min or max called
\* without a valid date, or without ticks that are a number below 10000.
CounterStep ==
  /\ GeneratingStep
  /\ ~(op'.date.kind = "date" /\ op'.ticks.kind = "number" /\ op'.ticks.n < _ticksInMs)

\* C20: a step that is no generation resolving its ticks from a counter (wrapping a
\* buffer, parsing, toString, equals, getDatePrecision, getNodeId, getClockId,
\* getNodeIdString, getBefore, and fromDate, min and max with a valid date and ticks
\* below 10000) leaves _ticks, _ticksForCurrentTime and _lastTimestamp as they were; a
\* call on an identifier leaves the identifier as it was.
C20_OnlyCounterStepsChangeState ==
  [][/\ ~CounterStep =>
          UNCHANGED <<_ticks, _ticksForCurrentTime, _lastTimestamp>>
     /\ out'.name # "none" => ret' = ret
     /\ (calls' = calls + 1 /\ op'.name = "getBefore") => op'.this = ret.buffer]_vars

\* getBefore of an identifier generated from 2015-01-10 and ticks given returned, and
\* the counters are where they were when the process started.
C20_Witness ==
  /\ op.name = "getBefore" /\ ret.ok /\ calls = 2
  /\ getDatePrecision(op.this).date = Date2015
  /\ ret.buffer # op.this
  /\ _ticks = 0 /\ _ticksForCurrentTime = 0 /\ _lastTimestamp = Zero

====
